---- MODULE Spec2Model ----
(***************************************************************************)
(* Model of streamlit_app.py: a six-stage Streamlit pipeline (script,      *)
(* audio, transcription, storyboard, metadata, video) over six artifacts   *)
(* kept in st.session_state.                                               *)
(*                                                                         *)
(* One step of the model is one user interaction followed by the complete  *)
(* top-to-bottom rerun of the script it triggers (lines 26-35, then        *)
(* pages[choice]() at line 245).  Streamlit reruns the script once per     *)
(* widget event, st.button returns True only for the button whose click    *)
(* triggered that rerun, and an exception raised by a call aborts the      *)
(* rerun at that point while st.session_state keeps what was already       *)
(* assigned.                                                               *)
(*                                                                         *)
(* Text is a sequence of one-character strings; an optional value is <<>>  *)
(* (Python None) or <<v>>.                                                 *)
(***************************************************************************)
EXTENDS Integers, Sequences, FiniteSets, TLC

VARIABLES
    script_text,      \* st.session_state.script_text
    audio_path,       \* st.session_state.audio_path
    timestamps_json,  \* st.session_state.timestamps_json
    storyboard_json,  \* st.session_state.storyboard_json
    metadata_json,    \* st.session_state.metadata_json
    video_path,       \* st.session_state.video_path
    choice,           \* value of the sidebar radio "Pipeline stage"
    topic,            \* value of the text area "Topic / prompt"
    audio_up,         \* file held by the uploader widget key="audio_up"
    nextTmp,          \* number of names handed out by tempfile.NamedTemporaryFile
    run               \* history of the latest rerun: its trigger, the outcomes of
                      \* its external calls, the gateway calls it made, and
                      \* whether it repeated the rerun before it

store == <<script_text, audio_path, timestamps_json, storyboard_json,
           metadata_json, video_path>>
widgets == <<choice, topic, audio_up>>
vars == <<script_text, audio_path, timestamps_json, storyboard_json,
          metadata_json, video_path, choice, topic, audio_up, nextTmp, run>>

(***************************************************************************)
(* Bounds                                                                  *)
(***************************************************************************)
MaxTmp == 2          \* temporary-file names handed out in one session
MaxLen == 4          \* longest transcript of the segmentation specification

(***************************************************************************)
(* Values                                                                  *)
(***************************************************************************)
None == <<>>
Some(v) == <<v>>

\* Python truthiness of an optional str / list: None, "" and [] are falsy.
Truthy(opt) == opt # None /\ opt[1] # <<>>

WS == {" ", "\n"}
NL == "\n"

RECURSIVE lstrip(_)
lstrip(s) == IF s # <<>> /\ Head(s) \in WS THEN lstrip(Tail(s)) ELSE s

RECURSIVE rstrip(_)
rstrip(s) ==
    IF s # <<>> /\ s[Len(s)] \in WS THEN rstrip(SubSeq(s, 1, Len(s) - 1)) ELSE s

\* str.strip()
strip(s) == rstrip(lstrip(s))

\* position of the first line break of s, 0 if there is none
RECURSIVE FirstNL(_, _)
FirstNL(s, i) ==
    IF i > Len(s) THEN 0 ELSE IF s[i] = NL THEN i ELSE FirstNL(s, i + 1)

\* str.splitlines(): no line for the empty remainder after a final line break
RECURSIVE splitlines(_)
splitlines(s) ==
    IF s = <<>> THEN <<>>
    ELSE LET i == FirstNL(s, 1) IN
         IF i = 0 THEN <<s>>
         ELSE <<SubSeq(s, 1, i - 1)>> \o splitlines(SubSeq(s, i + 1, Len(s)))

Pages == {"Script", "Audio", "Transcription", "Storyboard", "Metadata", "Video"}

B_use_prev == "Use previous script"
B_script == "Generate Script"
B_tts == "Create voice-over"
B_transcribe == "Transcribe & timestamp"
B_storyboard == "Generate storyboard prompts"
B_metadata == "Generate metadata"
B_video == "Assemble draft video"

\* the st.button calls that occur in the function of each page
ButtonsOf(p) ==
    CASE p = "Script" -> {B_use_prev, B_script}
      [] p = "Audio" -> {B_tts}
      [] p = "Transcription" -> {B_transcribe}
      [] p = "Storyboard" -> {B_storyboard}
      [] p = "Metadata" -> {B_metadata}
      [] p = "Video" -> {B_video}

Buttons == UNION {ButtonsOf(p) : p \in Pages}

Voices == {"alloy", "female", "male"}
Files == {"f1"}
NoFile == "-"

\* what the user can type into the text area
Topics == {<<>>, <<"p">>}

\* message.content returned by the completion service, before .strip()
Contents == {<<>>, <<"a">>, <<" ", "a", "\n">>}

\* transcripts returned by the transcription service in the session model
Transcripts ==
    { <<>>,
      <<" ", NL>>,
      <<"a", NL, "b">>,
      <<"a", NL, NL, "b", NL>> }

\* outcome of one external call: a value, or an exception
Ok(t) == [ok |-> TRUE, text |-> t]
Fail == [ok |-> FALSE, text |-> <<>>]
ChatOutcomes == {Ok(c) : c \in Contents} \cup {Fail}
TtsOutcomes == {Ok(<<"w">>), Fail}
WhisperOutcomes(T) == {Ok(t) : t \in T} \cup {Fail}

Call(op, arg, voice) == [op |-> op, arg |-> arg, voice |-> voice]

\* the n-th name handed out by tempfile.NamedTemporaryFile(suffix=kind)
TmpPath(kind, n) == [kind |-> kind, id |-> n, of |-> NoFile]

\* save_tmp_file is wrapped in st.cache_data: one path per uploaded file
save_tmp_file(f) == [kind |-> "upload", id |-> 0, of |-> f]

\* no clip was handed to write_videofile
NoVideo == [clips |-> <<>>, duration |-> 0, audio_s |-> 0]

\* ok: the rerun ended without an exception; again: trigger, outcomes and
\* calls are those of the rerun before it; video: the clip handed to
\* write_videofile
Run(page, ev, btn, outs, calls, ok) ==
    [page |-> page, ev |-> ev, btn |-> btn, outs |-> outs, calls |-> calls, ok |-> ok,
     video |-> NoVideo,
     again |-> /\ run.page = page /\ run.ev = ev /\ run.btn = btn
               /\ run.outs = outs /\ run.calls = calls /\ run.ok = ok]

(***************************************************************************)
(* Gateway                                                                 *)
(***************************************************************************)
\* call_openai_chat: the returned text is message.content.strip()
call_openai_chat(out) == strip(out.text)

(***************************************************************************)
(* Session state                                                           *)
(***************************************************************************)
\* variant: the default is assigned on every rerun
setdefault_assign(cur, v) == v

\* st.session_state.setdefault(k, v) of lines 34-35: the six keys exist from
\* the first run of the session on, so a rerun keeps the value cur they hold
setdefault(cur, v) == cur

\* the artifacts as the page function of a rerun finds them
ss_script_text == setdefault(script_text, None)
ss_audio_path == setdefault(audio_path, None)
ss_timestamps_json == setdefault(timestamps_json, None)
ss_storyboard_json == setdefault(storyboard_json, None)
ss_metadata_json == setdefault(metadata_json, None)
ss_video_path == setdefault(video_path, None)

\* an artifact the page function does not assign
keep_script_text == script_text' = ss_script_text
keep_audio_path == audio_path' = ss_audio_path
keep_timestamps_json == timestamps_json' = ss_timestamps_json
keep_storyboard_json == storyboard_json' = ss_storyboard_json
keep_metadata_json == metadata_json' = ss_metadata_json
keep_video_path == video_path' = ss_video_path

(***************************************************************************)
(* Step 1 - script                                                         *)
(***************************************************************************)
\* variant: the prompt is not tested
ShouldGenerate_any_prompt(btn, prompt) == btn = B_script

\* variant: the button is not tested
ShouldGenerate_no_button(btn, prompt) == prompt # <<>>

\* line 96: st.button("Generate Script") and prompt
ShouldGenerate(btn, prompt) == btn = B_script /\ prompt # <<>>

\* variant: the content is stored as returned
ScriptCommit_unstripped(old, out) == IF out.ok THEN Some(out.text) ELSE old

\* line 104 is reached only when the call returned
ScriptCommit(old, out) == IF out.ok THEN Some(call_openai_chat(out)) ELSE old

step_generate_script(ev, btn) ==
    LET use_prev == btn = B_use_prev /\ Truthy(ss_script_text)
        prompt == IF use_prev THEN ss_script_text[1] ELSE topic'
        generate == ShouldGenerate(btn, prompt)
        call == Call("complete", prompt, "-")
    IN  /\ keep_audio_path /\ keep_timestamps_json /\ keep_storyboard_json
        /\ keep_metadata_json /\ keep_video_path /\ UNCHANGED nextTmp
        /\ IF generate
           THEN \E out \in ChatOutcomes :
                  /\ script_text' = ScriptCommit(ss_script_text, out)
                  /\ run' = Run("Script", ev, btn, <<out>>, <<call>>, out.ok)
           ELSE /\ keep_script_text
                /\ run' = Run("Script", ev, btn, <<>>, <<>>, TRUE)

(***************************************************************************)
(* Step 2 - audio                                                          *)
(***************************************************************************)
\* tab2: a file held by the uploader overwrites audio_path on every rerun
UploadTab(ap, uploaded_audio) ==
    IF uploaded_audio # NoFile THEN Some(save_tmp_file(uploaded_audio)) ELSE ap

CanSynthesize == Truthy(ss_script_text)

step_audio_creation(ev, btn) ==
    /\ keep_script_text /\ keep_timestamps_json /\ keep_storyboard_json
    /\ keep_metadata_json /\ keep_video_path
    /\ IF CanSynthesize /\ btn = B_tts
       THEN \E voice \in Voices, out \in TtsOutcomes :
              LET call == Call("synthesize", ss_script_text[1], voice) IN
              IF out.ok
              THEN /\ nextTmp < MaxTmp
                   /\ nextTmp' = nextTmp + 1
                   /\ audio_path' = UploadTab(Some(TmpPath("wav", nextTmp + 1)), audio_up')
                   /\ run' = Run("Audio", ev, btn, <<out>>, <<call>>, TRUE)
              ELSE /\ keep_audio_path /\ UNCHANGED nextTmp
                   /\ run' = Run("Audio", ev, btn, <<out>>, <<call>>, FALSE)
       ELSE /\ UNCHANGED nextTmp
            /\ audio_path' = UploadTab(ss_audio_path, audio_up')
            /\ run' = Run("Audio", ev, btn, <<>>, <<>>, TRUE)

(***************************************************************************)
(* Step 3 - transcription                                                  *)
(***************************************************************************)
SegmentSeconds == 5

\* the comprehension of lines 153-156 from line number i (1-based) on;
\* enumerate() numbers every line, the filter then drops the blank ones
RECURSIVE SegmentsFrom(_, _)
SegmentsFrom(lines, i) ==
    IF i > Len(lines) THEN <<>>
    ELSE (IF strip(lines[i]) # <<>>
          THEN << [start |-> (i - 1) * SegmentSeconds,
                   end |-> i * SegmentSeconds,
                   text |-> strip(lines[i])] >>
          ELSE <<>>)
         \o SegmentsFrom(lines, i + 1)

\* variant: the filter looks at the line, the text is stored unstripped
RECURSIVE SegmentsFromRaw(_, _)
SegmentsFromRaw(lines, i) ==
    IF i > Len(lines) THEN <<>>
    ELSE (IF strip(lines[i]) # <<>>
          THEN << [start |-> (i - 1) * SegmentSeconds,
                   end |-> i * SegmentSeconds,
                   text |-> lines[i]] >>
          ELSE <<>>)
         \o SegmentsFromRaw(lines, i + 1)

segments_unstripped(transcript) == SegmentsFromRaw(splitlines(transcript), 1)

segments(transcript) == SegmentsFrom(splitlines(transcript), 1)

\* variant: the artifact is cleared before the call is made
TimestampsCommit_cleared(old, out) == IF out.ok THEN Some(segments(out.text)) ELSE None

\* line 157 is reached only when the call returned
TimestampsCommit(old, out) == IF out.ok THEN Some(segments(out.text)) ELSE old

CanTranscribe == ss_audio_path # None

\* variant: a new transcription discards the storyboard of the old one
step_transcription_invalidating(ev, btn, T) ==
    /\ keep_script_text /\ keep_audio_path /\ keep_metadata_json
    /\ keep_video_path /\ UNCHANGED nextTmp
    /\ IF CanTranscribe /\ btn = B_transcribe
       THEN \E out \in WhisperOutcomes(T) :
              /\ timestamps_json' = TimestampsCommit(ss_timestamps_json, out)
              /\ storyboard_json' = IF out.ok THEN None ELSE ss_storyboard_json
              /\ run' = Run("Transcription", ev, btn, <<out>>,
                            <<Call("transcribe", <<>>, "-")>>, out.ok)
       ELSE /\ keep_timestamps_json /\ keep_storyboard_json
            /\ run' = Run("Transcription", ev, btn, <<>>, <<>>, TRUE)

step_transcription(ev, btn, T) ==
    /\ keep_script_text /\ keep_audio_path /\ keep_storyboard_json
    /\ keep_metadata_json /\ keep_video_path /\ UNCHANGED nextTmp
    /\ IF CanTranscribe /\ btn = B_transcribe
       THEN \E out \in WhisperOutcomes(T) :
              /\ timestamps_json' = TimestampsCommit(ss_timestamps_json, out)
              /\ run' = Run("Transcription", ev, btn, <<out>>,
                            <<Call("transcribe", <<>>, "-")>>, out.ok)
       ELSE /\ keep_timestamps_json
            /\ run' = Run("Transcription", ev, btn, <<>>, <<>>, TRUE)

(***************************************************************************)
(* Step 4 - storyboard                                                     *)
(***************************************************************************)
ScenePrompt(text) == <<"Create an image prompt for a video scene: ">> \o text

\* the loop of lines 175-180 from segment i on; outs[i] is the outcome of the
\* i-th completion call.  An exception leaves the loop with sb_prompts lost.
\* variant: each entry is inserted at the front of sb_prompts
RECURSIVE StoryboardLoop_front(_, _, _, _, _)
StoryboardLoop_front(segs, outs, i, sb_prompts, calls) ==
    IF i > Len(segs)
    THEN [ok |-> TRUE, sb |-> sb_prompts, calls |-> calls, outs |-> SubSeq(outs, 1, i - 1)]
    ELSE LET seg == segs[i]
             call == Call("complete", ScenePrompt(seg.text), "-")
         IN  IF outs[i].ok
             THEN StoryboardLoop_front(segs, outs, i + 1,
                      <<[start |-> seg.start, end |-> seg.end, text |-> seg.text,
                         prompt |-> call_openai_chat(outs[i])]>> \o sb_prompts,
                      Append(calls, call))
             ELSE [ok |-> FALSE, sb |-> sb_prompts, calls |-> Append(calls, call),
                   outs |-> SubSeq(outs, 1, i)]

RECURSIVE StoryboardLoop(_, _, _, _, _)
StoryboardLoop(segs, outs, i, sb_prompts, calls) ==
    IF i > Len(segs)
    THEN [ok |-> TRUE, sb |-> sb_prompts, calls |-> calls, outs |-> SubSeq(outs, 1, i - 1)]
    ELSE LET seg == segs[i]
             call == Call("complete", ScenePrompt(seg.text), "-")
         IN  IF outs[i].ok
             THEN StoryboardLoop(segs, outs, i + 1,
                      Append(sb_prompts,
                             [start |-> seg.start, end |-> seg.end, text |-> seg.text,
                              prompt |-> call_openai_chat(outs[i])]),
                      Append(calls, call))
             ELSE [ok |-> FALSE, sb |-> sb_prompts, calls |-> Append(calls, call),
                   outs |-> SubSeq(outs, 1, i)]

\* variant: the list is written to the store as it grows
StoryboardCommit_partial(old, r) == Some(r.sb)

\* variant: a run extends the list already in the store
StoryboardCommit_additive(old, r) ==
    IF r.ok THEN Some((IF old = None THEN <<>> ELSE old[1]) \o r.sb) ELSE old

\* line 181 is reached only when the loop ended without an exception
StoryboardCommit(old, r) == IF r.ok THEN Some(r.sb) ELSE old

CanStoryboard == Truthy(ss_timestamps_json)

step_storyboard(ev, btn) ==
    /\ keep_script_text /\ keep_audio_path /\ keep_timestamps_json
    /\ keep_metadata_json /\ keep_video_path /\ UNCHANGED nextTmp
    /\ IF CanStoryboard /\ btn = B_storyboard
       THEN \E outs \in [1 .. Len(ss_timestamps_json[1]) -> ChatOutcomes] :
              LET r == StoryboardLoop(ss_timestamps_json[1], outs, 1, <<>>, <<>>) IN
              /\ storyboard_json' = StoryboardCommit(ss_storyboard_json, r)
              /\ run' = Run("Storyboard", ev, btn, r.outs, r.calls, r.ok)
       ELSE /\ keep_storyboard_json
            /\ run' = Run("Storyboard", ev, btn, <<>>, <<>>, TRUE)

(***************************************************************************)
(* Step 5 - metadata                                                       *)
(***************************************************************************)
\* variant: the guard tests for None only
CanMetadata_not_none == ss_script_text # None

CanMetadata == Truthy(ss_script_text)

step_metadata(ev, btn) ==
    /\ keep_script_text /\ keep_audio_path /\ keep_timestamps_json
    /\ keep_storyboard_json /\ keep_video_path /\ UNCHANGED nextTmp
    /\ IF CanMetadata /\ btn = B_metadata
       THEN \E out \in ChatOutcomes :
              /\ metadata_json' = IF out.ok THEN Some(call_openai_chat(out))
                                  ELSE ss_metadata_json
              /\ run' = Run("Metadata", ev, btn, <<out>>,
                            <<Call("complete", ss_script_text[1], "-")>>, out.ok)
       ELSE /\ keep_metadata_json
            /\ run' = Run("Metadata", ev, btn, <<>>, <<>>, TRUE)

(***************************************************************************)
(* Step 6 - video                                                          *)
(***************************************************************************)
duration_per_slide == 5

\* where the assembly of lines 217-227 can raise; "ok" is no exception
AssemblyOutcomes == {"ok", "slides", "audio", "concat", "write"}

\* variant: the guard tests video_path in place of audio_path
CanVideo_wrong_key == Truthy(ss_storyboard_json) /\ ss_video_path # None

CanVideo == Truthy(ss_storyboard_json) /\ ss_audio_path # None

\* durations of the audio resource, shorter and longer than the slides
AudioSeconds == {3, 20}

\* lines 217-223: one slide of duration_per_slide seconds per scene, labelled
\* with the scene's prompt
Slides(sb) ==
    [i \in 1 .. Len(sb) |-> [duration |-> duration_per_slide, label |-> sb[i].prompt]]

RECURSIVE SumDurations(_)
SumDurations(clips) ==
    IF clips = <<>> THEN 0 ELSE Head(clips).duration + SumDurations(Tail(clips))

\* line 225: the clips one after the other
concatenate_videoclips(imgs) ==
    [clips |-> imgs, duration |-> SumDurations(imgs), audio_s |-> 0]

\* variant: the clip takes the duration of its audio track
set_audio_fit(video, audio_s) ==
    [video EXCEPT !.audio_s = audio_s, !.duration = audio_s]

\* line 225: attaching the audio track leaves the clip's duration as it is
set_audio(video, audio_s) == [video EXCEPT !.audio_s = audio_s]

\* variant: video_path is assigned before write_videofile is called
VideoCommit_early(old, a, out_path) ==
    IF a \in {"ok", "write"} THEN Some(out_path) ELSE old

\* line 228 is reached only when write_videofile returned
VideoCommit(old, a, out_path) == IF a = "ok" THEN Some(out_path) ELSE old

step_video(ev, btn) ==
    /\ keep_script_text /\ keep_audio_path /\ keep_timestamps_json
    /\ keep_storyboard_json /\ keep_metadata_json
    /\ IF CanVideo /\ btn = B_video
       THEN \E a \in AssemblyOutcomes, audio_s \in AudioSeconds :
              LET video == set_audio(concatenate_videoclips(Slides(ss_storyboard_json[1])),
                                     audio_s)
                  r == Run("Video", ev, btn, <<[ok |-> a = "ok", text |-> <<a>>]>>,
                           <<>>, a = "ok")
              IN  IF a \in {"ok", "write"}
                  THEN /\ nextTmp < MaxTmp
                       /\ nextTmp' = nextTmp + 1
                       /\ video_path' = VideoCommit(ss_video_path, a,
                                                    TmpPath("mp4", nextTmp + 1))
                       /\ run' = [r EXCEPT !.video = video]
                  ELSE /\ keep_video_path /\ UNCHANGED nextTmp
                       /\ run' = r
       ELSE /\ keep_video_path /\ UNCHANGED nextTmp
            /\ run' = Run("Video", ev, btn, <<>>, <<>>, TRUE)

(***************************************************************************)
(* The rerun of the script: pages[choice]()                                *)
(***************************************************************************)
Rerun(ev, btn, T) ==
    CASE choice' = "Script" -> step_generate_script(ev, btn)
      [] choice' = "Audio" -> step_audio_creation(ev, btn)
      [] choice' = "Transcription" -> step_transcription(ev, btn, T)
      [] choice' = "Storyboard" -> step_storyboard(ev, btn)
      [] choice' = "Metadata" -> step_metadata(ev, btn)
      [] choice' = "Video" -> step_video(ev, btn)

(***************************************************************************)
(* User interactions; each triggers one rerun                              *)
(***************************************************************************)
\* the sidebar radio; widgets of the page left are not rendered any more and
\* Streamlit discards their values
Select(p) ==
    /\ p # choice
    /\ choice' = p
    /\ topic' = <<>>
    /\ audio_up' = NoFile
    /\ Rerun("select", "none", Transcripts)

\* a click on one of the buttons of the current page; T is the set of
\* transcripts the transcription service may return
ClickIn(b, T) ==
    /\ b \in ButtonsOf(choice)
    /\ UNCHANGED widgets
    /\ Rerun("click", b, T)

Click(b) == ClickIn(b, Transcripts)

EditTopic(t) ==
    /\ choice = "Script"
    /\ t # topic
    /\ topic' = t
    /\ UNCHANGED <<choice, audio_up>>
    /\ Rerun("edit", "none", Transcripts)

Upload(f) ==
    /\ choice = "Audio"
    /\ audio_up = NoFile
    /\ audio_up' = f
    /\ UNCHANGED <<choice, topic>>
    /\ Rerun("upload", "none", Transcripts)

RemoveUpload ==
    /\ choice = "Audio"
    /\ audio_up # NoFile
    /\ audio_up' = NoFile
    /\ UNCHANGED <<choice, topic>>
    /\ Rerun("remove", "none", Transcripts)

\* lines 26-35 at session start; the radio shows its first option
Init ==
    /\ script_text = None
    /\ audio_path = None
    /\ timestamps_json = None
    /\ storyboard_json = None
    /\ metadata_json = None
    /\ video_path = None
    /\ choice = "Script"
    /\ topic = <<>>
    /\ audio_up = NoFile
    /\ nextTmp = 0
    /\ run = [page |-> "Script", ev |-> "start", btn |-> "none", outs |-> <<>>,
               calls |-> <<>>, ok |-> TRUE, video |-> NoVideo, again |-> FALSE]

Next ==
    \/ \E p \in Pages : Select(p)
    \/ \E b \in Buttons : Click(b)
    \/ \E t \in Topics : EditTopic(t)
    \/ \E f \in Files : Upload(f)
    \/ RemoveUpload

Spec == Init /\ [][Next]_vars

(***************************************************************************)
(* Segmentation specification: the transcription run applied to every      *)
(* transcript of at most MaxLen characters.  It starts in the state the    *)
(* session is in after a file was uploaded and the Transcription page was  *)
(* selected.                                                               *)
(***************************************************************************)
Chars == {"a", "b", " ", NL}

RECURSIVE TextsUpTo(_)
TextsUpTo(n) ==
    IF n = 0 THEN {<<>>}
    ELSE LET shorter == TextsUpTo(n - 1) IN
         shorter \cup {Append(t, c) : t \in {u \in shorter : Len(u) = n - 1}, c \in Chars}

AllTranscripts == TextsUpTo(MaxLen)

SegInit ==
    /\ script_text = None
    /\ audio_path = Some(save_tmp_file("f1"))
    /\ timestamps_json = None
    /\ storyboard_json = None
    /\ metadata_json = None
    /\ video_path = None
    /\ choice = "Transcription"
    /\ topic = <<>>
    /\ audio_up = NoFile
    /\ nextTmp = 0
    /\ run = [page |-> "Transcription", ev |-> "select", btn |-> "none", outs |-> <<>>,
               calls |-> <<>>, ok |-> TRUE, video |-> NoVideo, again |-> FALSE]

Transcribe == ClickIn(B_transcribe, AllTranscripts)

SegNext == Transcribe

SegSpec == SegInit /\ [][SegNext]_vars

(***************************************************************************)
(* Pipeline specification: from the start of the session the user runs     *)
(* Script, Audio (synthesis), Transcription, Storyboard and Video in this   *)
(* order; no external call fails, the script is not empty and the           *)
(* transcript has a non-blank line.  The user goes on to the next step      *)
(* (weak fairness of each step).                                            *)
(***************************************************************************)
\* the outcomes of the rerun: no exception, no empty script, no blank transcript
Favourable(r) ==
    /\ r.ok
    /\ (r.page = "Script" /\ r.outs # <<>>) => strip(r.outs[1].text) # <<>>
    /\ (r.page = "Transcription" /\ r.outs # <<>>) => segments(r.outs[1].text) # <<>>

P_Type ==
    /\ choice = "Script" /\ script_text = None /\ topic = <<>>
    /\ EditTopic(<<"p">>)

P_Script ==
    /\ choice = "Script" /\ script_text = None /\ topic # <<>>
    /\ ClickIn(B_script, AllTranscripts)
    /\ Favourable(run')

P_ToAudio ==
    /\ choice = "Script" /\ script_text # None
    /\ Select("Audio")

P_Audio ==
    /\ choice = "Audio" /\ audio_path = None
    /\ ClickIn(B_tts, AllTranscripts)
    /\ Favourable(run')

P_ToTranscription ==
    /\ choice = "Audio" /\ audio_path # None
    /\ Select("Transcription")

P_Transcribe ==
    /\ choice = "Transcription" /\ timestamps_json = None
    /\ ClickIn(B_transcribe, AllTranscripts)
    /\ Favourable(run')

P_ToStoryboard ==
    /\ choice = "Transcription" /\ timestamps_json # None
    /\ Select("Storyboard")

P_Storyboard ==
    /\ choice = "Storyboard" /\ storyboard_json = None
    /\ ClickIn(B_storyboard, AllTranscripts)
    /\ Favourable(run')

P_ToVideo ==
    /\ choice = "Storyboard" /\ storyboard_json # None
    /\ Select("Video")

P_Video ==
    /\ choice = "Video" /\ video_path = None
    /\ ClickIn(B_video, AllTranscripts)
    /\ Favourable(run')

PipeNext ==
    \/ P_Type
    \/ P_Script
    \/ P_ToAudio
    \/ P_Audio
    \/ P_ToTranscription
    \/ P_Transcribe
    \/ P_ToStoryboard
    \/ P_Storyboard
    \/ P_ToVideo
    \/ P_Video

PipeSpec ==
    /\ Init
    /\ [][PipeNext]_vars
    /\ WF_vars(P_Type) /\ WF_vars(P_Script) /\ WF_vars(P_ToAudio)
    /\ WF_vars(P_Audio) /\ WF_vars(P_ToTranscription) /\ WF_vars(P_Transcribe)
    /\ WF_vars(P_ToStoryboard) /\ WF_vars(P_Storyboard) /\ WF_vars(P_ToVideo)
    /\ WF_vars(P_Video)

(***************************************************************************)
(* Properties                                                              *)
(***************************************************************************)
\* the button b was clicked while the artifact its stage consumes is missing
MissingPrerequisite(b) ==
    \/ b = B_tts /\ (script_text = None \/ script_text = Some(<<>>))
    \/ b = B_transcribe /\ audio_path = None
    \/ b = B_storyboard /\ (timestamps_json = None \/ timestamps_json = Some(<<>>))
    \/ b = B_metadata /\ (script_text = None \/ script_text = Some(<<>>))
    \/ b = B_video /\ (storyboard_json = None \/ storyboard_json = Some(<<>>)
                         \/ audio_path = None)

\* C1: a click on the run button of a stage whose prerequisite artifact is
\* missing leaves the six artifacts unchanged and makes no gateway call.
C1_MissingPrerequisiteIsNoOp ==
    [][ (run'.ev = "click" /\ MissingPrerequisite(run'.btn))
        => (store' = store /\ run'.calls = <<>>) ]_vars

\* the Video button was clicked with audio but without a storyboard
C1_Witness ==
    /\ run.ev = "click" /\ run.btn = B_video
    /\ audio_path # None /\ storyboard_json = None /\ video_path = None

\* C2: the k-th segment of timestamps_json (k from 0) spans 5*k to 5*(k+1),
\* so blank lines of the transcript take no slot.
C2_ContiguousWindows ==
    timestamps_json # None =>
        \A k \in 1 .. Len(timestamps_json[1]) :
            /\ timestamps_json[1][k].start = 5 * (k - 1)
            /\ timestamps_json[1][k].end = 5 * k

\* C3: a Storyboard run whose completion call fails on some entry leaves
\* storyboard_json as it was before the run.
C3_StoryboardAllOrNothing ==
    [][ (run'.page = "Storyboard" /\ run'.btn = B_storyboard /\ ~run'.ok)
        => storyboard_json' = storyboard_json ]_vars

\* the call for the second entry failed while a storyboard was in the store
C3_Witness ==
    /\ run.page = "Storyboard" /\ run.btn = B_storyboard /\ ~run.ok
    /\ Len(run.calls) = 2
    /\ storyboard_json # None

\* sb is ts with a prompt field added to each entry
IsAugmentation(sb, ts) ==
    /\ Len(sb) = Len(ts)
    /\ \A i \in 1 .. Len(ts) :
          /\ sb[i].start = ts[i].start
          /\ sb[i].end = ts[i].end
          /\ sb[i].text = ts[i].text

\* C4: whenever storyboard_json is present it is a 1:1 augmentation of the
\* current timestamps_json.
C4_StoryboardAugmentsTimestamps ==
    storyboard_json # None =>
        /\ timestamps_json # None
        /\ IsAugmentation(storyboard_json[1], timestamps_json[1])

\* C5: a failed gateway call of the Script, Audio, Transcription or Metadata
\* stage leaves all six artifacts as they were.
C5_ServiceFailureNonMutating ==
    [][ (run'.page \in {"Script", "Audio", "Transcription", "Metadata"} /\ ~run'.ok)
        => store' = store ]_vars

\* a transcription failed while timestamps of an earlier run were in the store
C5_Witness ==
    /\ run.page = "Transcription" /\ ~run.ok /\ Len(run.calls) = 1
    /\ timestamps_json # None

\* C6: after a successful synthesis audio_path references the newly
\* synthesized resource, and after an upload it references the uploaded one.
C6_LastWriterWins ==
    [][ /\ (run'.btn = B_tts /\ run'.ok /\ run'.calls # <<>>)
           => audio_path' = Some(TmpPath("wav", nextTmp'))
        /\ (run'.ev = "upload")
           => audio_path' = Some(save_tmp_file(audio_up')) ]_vars

\* C7 as stated: a run that repeats the run before it (same trigger, same
\* inputs, same outcomes) leaves the six artifacts equal.
C7_Idempotent ==
    [][ (run'.again /\ run'.ev = "click") => store' = store ]_vars

\* C7 amended: a repeated run leaves the artifacts equal, except that a
\* successful synthesis with no file in the uploader and a successful video
\* assembly write a reference to a new resource into their own artifact.
C7_IdempotentUpToFreshResource ==
    [][ (run'.again /\ run'.ev = "click") =>
          LET synth == run'.btn = B_tts /\ run'.ok /\ run'.calls # <<>>
                       /\ audio_up' = NoFile
              video == run'.btn = B_video /\ run'.ok /\ run'.outs # <<>>
          IN  /\ <<script_text, timestamps_json, storyboard_json, metadata_json>>'
                   = <<script_text, timestamps_json, storyboard_json, metadata_json>>
              /\ IF synth
                 THEN /\ audio_path' # audio_path
                      /\ audio_path' = Some(TmpPath("wav", nextTmp'))
                      /\ audio_path = Some(TmpPath("wav", nextTmp))
                 ELSE audio_path' = audio_path
              /\ IF video
                 THEN /\ video_path' # video_path
                      /\ video_path' = Some(TmpPath("mp4", nextTmp'))
                      /\ video_path = Some(TmpPath("mp4", nextTmp))
                 ELSE video_path' = video_path ]_vars

\* a storyboard run over two segments repeated the run before it
C7_Witness ==
    /\ run.again /\ run.ev = "click" /\ run.btn = B_storyboard /\ run.ok
    /\ Len(run.calls) = 2

\* C8: 'Generate Script' clicked right after 'Use previous script' calls the
\* completion service with the previous script_text and stores the result.
C8_UsePreviousScript ==
    [][ (/\ run.page = "Script" /\ run.btn = B_use_prev
         /\ script_text # None /\ script_text # Some(<<>>)
         /\ run'.page = "Script" /\ run'.btn = B_script)
        => /\ Len(run'.calls) = 1
           /\ run'.calls[1].op = "complete"
           /\ run'.calls[1].arg = script_text[1]
           /\ run'.ok => script_text' = Some(strip(run'.outs[1].text)) ]_vars

\* C9: a Storyboard run over N segments in which every call succeeds makes
\* N completion calls in segment order and stores N entries, the i-th being
\* the i-th segment plus the prompt returned for it.
C9_StoryboardSuccess ==
    [][ (run'.page = "Storyboard" /\ run'.btn = B_storyboard /\ run'.ok
         /\ run'.calls # <<>>)
        => LET ts == timestamps_json[1]
               N == Len(ts)
           IN  /\ timestamps_json' = timestamps_json
               /\ N >= 1
               /\ Len(run'.calls) = N
               /\ \A i \in 1 .. N :
                     /\ run'.calls[i].op = "complete"
                     /\ run'.calls[i].arg =
                          <<"Create an image prompt for a video scene: ">> \o ts[i].text
               /\ storyboard_json' # None
               /\ Len(storyboard_json'[1]) = N
               /\ \A i \in 1 .. N :
                     storyboard_json'[1][i] =
                         [start |-> ts[i].start, end |-> ts[i].end, text |-> ts[i].text,
                          prompt |-> strip(run'.outs[i].text)] ]_vars

\* two different segments were given two different prompts
C9_Witness ==
    /\ run.page = "Storyboard" /\ run.btn = B_storyboard /\ run.ok
    /\ storyboard_json # None
    /\ Len(storyboard_json[1]) = 2
    /\ storyboard_json[1][1].text # storyboard_json[1][2].text
    /\ storyboard_json[1][1].prompt # storyboard_json[1][2].prompt

\* the lines of a text, stated by position: a line starts at the first
\* character and after every line break, and runs up to the next line break
LineStarts(t) == {lo \in 1 .. Len(t) : lo = 1 \/ t[lo - 1] = NL}

LineAt(t, lo) ==
    LET hi == CHOOSE h \in (lo - 1) .. Len(t) :
                  /\ h = Len(t) \/ t[h + 1] = NL
                  /\ \A j \in lo .. h : t[j] # NL
    IN  SubSeq(t, lo, hi)

NonBlank(l) == \E i \in 1 .. Len(l) : l[i] \notin {" ", NL}

\* l from its first to its last character that is not whitespace
Trimmed(l) ==
    LET nb == {i \in 1 .. Len(l) : l[i] \notin {" ", NL}}
        lo == CHOOSE i \in nb : \A j \in nb : i <= j
        hi == CHOOSE i \in nb : \A j \in nb : j <= i
    IN  SubSeq(l, lo, hi)

NonBlankStarts(t) == {lo \in LineStarts(t) : NonBlank(LineAt(t, lo))}

\* C10: after a successful transcription timestamps_json holds one segment
\* per non-blank line of the transcript, in line order, each with the text
\* of its line without leading and trailing whitespace.
C10_OneSegmentPerNonBlankLine ==
    (run.page = "Transcription" /\ run.btn = B_transcribe /\ run.ok
     /\ run.calls # <<>>)
    => LET t == run.outs[1].text
           S == NonBlankStarts(t)
       IN  /\ timestamps_json # None
           /\ Len(timestamps_json[1]) = Cardinality(S)
           /\ \A lo \in S :
                 LET k == Cardinality({x \in S : x < lo}) + 1 IN
                 timestamps_json[1][k].text = Trimmed(LineAt(t, lo))

\* a transcript of a whitespace-only line and a padded line was segmented
C10_Witness ==
    /\ run.page = "Transcription" /\ run.ok /\ run.calls # <<>>
    /\ run.outs[1].text = <<" ", NL, "a", " ">>
    /\ timestamps_json # None
    /\ Len(timestamps_json[1]) = 1

\* C11: a Script run with a non-empty prompt whose completion call returns
\* content with a non-empty trimmed text T ends with script_text = T.
C11_ScriptSuccess ==
    [][ (/\ run'.page = "Script" /\ run'.btn = B_script /\ run'.ok
         /\ run'.calls # <<>>
         /\ NonBlank(run'.outs[1].text))
        => /\ run'.calls[1].arg # <<>>
           /\ script_text' = Some(Trimmed(run'.outs[1].text)) ]_vars

\* content with whitespace around it was returned and stored trimmed
C11_Witness ==
    /\ run.page = "Script" /\ run.btn = B_script /\ run.ok
    /\ run.outs = <<Ok(<<" ", "a", NL>>)>>
    /\ script_text = Some(<<"a">>)

\* C12: a successful Video run over an M-entry storyboard hands over M
\* slides of 5 seconds, labelled in storyboard order, with a duration of 5*M
\* seconds whatever the duration of the audio.
C12_VideoDuration ==
    [][ (run'.page = "Video" /\ run'.btn = B_video /\ run'.ok /\ run'.outs # <<>>)
        => LET sb == storyboard_json[1]
               M == Len(sb)
               v == run'.video
           IN  /\ M >= 1
               /\ Len(v.clips) = M
               /\ \A i \in 1 .. M :
                     v.clips[i] = [duration |-> 5, label |-> sb[i].prompt]
               /\ v.duration = 5 * M ]_vars

\* a two-slide video was written with an audio track of another duration
C12_Witness ==
    /\ run.page = "Video" /\ run.ok /\ run.outs # <<>>
    /\ Len(run.video.clips) = 2
    /\ run.video.audio_s # run.video.duration
    /\ video_path # None

\* C13: the session starts with the six artifacts absent, and no rerun
\* turns an artifact that was written back into an absent one.
C13_InitAbsentNeverReset ==
    /\ store = <<None, None, None, None, None, None>>
    /\ [][ /\ script_text # None => script_text' # None
           /\ audio_path # None => audio_path' # None
           /\ timestamps_json # None => timestamps_json' # None
           /\ storyboard_json # None => storyboard_json' # None
           /\ metadata_json # None => metadata_json' # None
           /\ video_path # None => video_path' # None ]_vars

\* a page was selected, and so the script rerun, after artifacts were written
C13_Witness ==
    /\ run.ev = "select"
    /\ script_text # None /\ audio_path # None /\ metadata_json # None

\* C14: 'Generate Script' clicked with an empty prompt makes no completion
\* call and leaves the six artifacts unchanged.
C14_EmptyPromptIsNoOp ==
    [][ (run'.page = "Script" /\ run'.btn = B_script /\ topic' = <<>>)
        => (store' = store /\ run'.calls = <<>>) ]_vars

\* the button was clicked on an empty text area while a script existed
C14_Witness ==
    /\ run.page = "Script" /\ run.btn = B_script /\ topic = <<>>
    /\ script_text = Some(<<"a">>)

\* C15: a Video run that fails at any point of the assembly leaves the six
\* artifacts as they were.
C15_AssemblyFailureNonMutating ==
    [][ (run'.page = "Video" /\ run'.btn = B_video /\ ~run'.ok)
        => store' = store ]_vars

\* writing the file failed while the video of an earlier run was in the store
C15_Witness ==
    /\ run.page = "Video" /\ ~run.ok
    /\ run.outs = <<[ok |-> FALSE, text |-> <<"write">>]>>
    /\ video_path # None

\* C16: a rerun executes the function of the selected page only, and
\* changes no artifact other than the output of that page's stage.
C16_FrameCondition ==
    [][ /\ run'.page = choice'
        /\ run'.page # "Script" => script_text' = script_text
        /\ run'.page # "Audio" => audio_path' = audio_path
        /\ run'.page # "Transcription" => timestamps_json' = timestamps_json
        /\ run'.page # "Storyboard" => storyboard_json' = storyboard_json
        /\ run'.page # "Metadata" => metadata_json' = metadata_json
        /\ run'.page # "Video" => video_path' = video_path
        /\ Cardinality({i \in 1 .. 6 : store'[i] # store[i]}) <= 1 ]_vars

\* a transcription replaced the segments a storyboard was built from
C16_Witness ==
    /\ run.page = "Transcription" /\ run.ok /\ run.calls # <<>>
    /\ storyboard_json # None
    /\ timestamps_json = Some(<<>>)

\* C17 as stated: an artifact that passes the presence test of the guards
\* passes it after every later rerun.
C17_PresenceMonotone ==
    [][ /\ Truthy(script_text) => Truthy(script_text')
        /\ audio_path # None => audio_path' # None
        /\ Truthy(timestamps_json) => Truthy(timestamps_json')
        /\ Truthy(storyboard_json) => Truthy(storyboard_json') ]_vars

\* C17 amended: audio_path stays set, a non-empty storyboard_json stays
\* non-empty and no artifact returns to None; script_text and
\* timestamps_json stop passing the presence test only when a successful
\* run of their own stage stores an empty result.
C17_PresenceLostOnlyByEmptyResult ==
    [][ /\ audio_path # None => audio_path' # None
        /\ Truthy(storyboard_json) => Truthy(storyboard_json')
        /\ script_text # None => script_text' # None
        /\ timestamps_json # None => timestamps_json' # None
        /\ (Truthy(script_text) /\ ~Truthy(script_text'))
           => /\ run'.page = "Script" /\ run'.btn = B_script /\ run'.ok
              /\ run'.calls # <<>>
              /\ ~NonBlank(run'.outs[1].text)
              /\ script_text' = Some(<<>>)
        /\ (Truthy(timestamps_json) /\ ~Truthy(timestamps_json'))
           => /\ run'.page = "Transcription" /\ run'.btn = B_transcribe /\ run'.ok
              /\ run'.calls # <<>>
              /\ NonBlankStarts(run'.outs[1].text) = {}
              /\ timestamps_json' = Some(<<>>) ]_vars

\* a transcription without a non-blank line replaced the segments a
\* storyboard had been built from
C17_Witness ==
    /\ run.page = "Transcription" /\ run.btn = B_transcribe /\ run.ok
    /\ run.outs = <<Ok(<<" ", NL>>)>>
    /\ timestamps_json = Some(<<>>)
    /\ Truthy(storyboard_json)
    /\ audio_path # None

\* C18: an artifact is non-null only if the artifacts its stage consumes
\* are non-null.
C18_DependencyInvariant ==
    /\ video_path # None => (storyboard_json # None /\ audio_path # None)
    /\ storyboard_json # None => timestamps_json # None
    /\ timestamps_json # None => audio_path # None
    /\ metadata_json # None => script_text # None

\* the whole chain and the metadata were produced
C18_Witness ==
    /\ video_path # None /\ storyboard_json # None /\ timestamps_json # None
    /\ audio_path # None /\ metadata_json # None /\ script_text # None

\* C19: in the pipeline every clicked run button passes its guard (the
\* stage makes its call or assembly), the Storyboard and Video loops take as
\* many steps as their list is long, and video_path is eventually present.
C19_PipelineCompletes ==
    /\ [](run.ev = "click" =>
            /\ run.outs # <<>>
            /\ run.page = "Storyboard" => Len(run.calls) = Len(timestamps_json[1])
            /\ run.page = "Video" => Len(run.video.clips) = Len(storyboard_json[1]))
    /\ <>(video_path # None)

\* the pipeline ended with the five artifacts of the chain present
C19_Witness ==
    /\ run.page = "Video" /\ run.ev = "click" /\ run.ok
    /\ video_path = Some(TmpPath("mp4", 2))
    /\ audio_path = Some(TmpPath("wav", 1))
    /\ Truthy(script_text) /\ Truthy(timestamps_json) /\ Truthy(storyboard_json)

\* C20: a rerun without a button click and without a file in the uploader
\* leaves the six artifacts unchanged and makes no gateway call, and every
\* other page can be selected in every state.
C20_NavigationSideEffectFree ==
    /\ [](\A p \in Pages \ {choice} : ENABLED Select(p))
    /\ [][ (run'.btn = "none" /\ audio_up' = NoFile)
           => (store' = store /\ run'.calls = <<>>) ]_vars

\* the Video page was selected while only the script existed
C20_Witness ==
    /\ run.ev = "select" /\ run.page = "Video"
    /\ script_text # None /\ audio_path = None /\ storyboard_json = None

====
